---- MODULE Spec2Model ----
(***************************************************************************)
(* Model of packages/indexer/src/common/healthcheck.ts: handleEvents, the  *)
(* LooksRare-v2 event normaliser that turns raw enhanced events into the   *)
(* records of an OnChainData accumulator.                                  *)
(*                                                                         *)
(* A call of handleEvents walks its batch one raw event at a time; the     *)
(* batch is revealed to the model one event per step (the code never looks *)
(* ahead), and `events` keeps the part of the batch consumed so far.       *)
(* The awaited collaborators (abi.parseLog, extractAttributionData,        *)
(* getUSDAndNativePrices) are inputs of the step: what they return, or     *)
(* that they reject, is chosen with \E.                                    *)
(***************************************************************************)
EXTENDS Integers, Sequences, FiniteSets, TLC

VARIABLES
  onChainData,     \* the accumulator: one sequence per record list
  pushLog,         \* order of the push calls made on the accumulator (list names)
  currentTx,       \* handleEvents local: tx hash of the current run of events
  currentTxLogs,   \* handleEvents local: logs seen for currentTx
  events,          \* raw events of the current call consumed so far
  calls,           \* resolver calls made so far: function, arguments, result
  status,          \* "running" | "await-attribution" | "await-price" |
                   \* "returned" | "thrown"
  redis,           \* the Redis store: key -> [value] or [value, expiresAt]
  clock,           \* now(), in seconds
  detections,      \* the detectMint invocations: arguments and position
  health           \* the process config and the HealthCheck.check call

vars == <<onChainData, pushLog, currentTx, currentTxLogs, events, calls, status,
          redis, clock, detections, health>>

\* What handleEvents never touches.
processVars == <<redis, clock, detections, health>>

-----------------------------------------------------------------------------
(* Bounds *)

MaxEvents == 2
MaxNonces == 2

-----------------------------------------------------------------------------
(* JavaScript values *)

undefined == "undefined"

\* String.prototype.toLowerCase over the addresses and hashes the inputs use.
LowerTable ==
  [a \in {"0xA1", "0xB2", "0xC3", "0xH1", "0xE20", "0xNFT"} |->
     CASE a = "0xA1" -> "0xa1"
       [] a = "0xB2" -> "0xb2"
       [] a = "0xC3" -> "0xc3"
       [] a = "0xH1" -> "0xh1"
       [] a = "0xE20" -> "0xe20"
       [] a = "0xNFT" -> "0xnft"]

toLowerCase(s) == IF s \in DOMAIN LowerTable THEN LowerTable[s] ELSE s

\* BigNumber.prototype.toString / String(): the decimal numeral.
toString(n) == ToString(n)

\* Array.prototype.map(String)
MapString(ns) == [i \in 1..Len(ns) |-> toString(ns[i])]

-----------------------------------------------------------------------------
(* Inputs: raw events *)

\* baseEventParams of the raw events: a block with transaction 0xt1 (logs 0
\* and 1) followed by a block with transaction 0xt2 (log 0).  The timestamp is
\* the block's.  batchIndex is whatever the upstream stage assigned.
BaseEventParams(txHash, logIndex, batchIndex) ==
  [txHash |-> txHash, logIndex |-> logIndex, batchIndex |-> batchIndex,
   timestamp |-> IF txHash = "0xt1" THEN 100 ELSE 200]

Tx1Log0 == BaseEventParams("0xt1", 0, 1)
Tx1Log1 == BaseEventParams("0xt1", 1, 2)
Tx2Log0 == BaseEventParams("0xt2", 0, 1)

\* A log is modelled by what eventData.abi.parseLog makes of it: its decoded
\* args, or decodable = FALSE when parseLog throws on it.  erc20 is the token
\* address when the log is an ERC-20 Transfer, else undefined.
MalformedLog == [decodable |-> FALSE, erc20 |-> undefined, args |-> <<>>]
DecodedLog(args) == [decodable |-> TRUE, erc20 |-> undefined, args |-> args]

RawEvent(subKind, baseEventParams, log) ==
  [subKind |-> subKind, baseEventParams |-> baseEventParams, log |-> log]

\* One nonce list per length 0..MaxNonces, in descending order: <<2, 1>>.
NonceLists == {[i \in 1..n |-> n + 1 - i] : n \in 0..MaxNonces}

NewBidAskNoncesEvents ==
  {RawEvent("looks-rare-v2-new-bid-ask-nonces", Tx1Log0, MalformedLog)} \cup
  {RawEvent("looks-rare-v2-new-bid-ask-nonces", bep,
            DecodedLog([user |-> "0xA1", bidNonce |-> 3, askNonce |-> 4])) :
     bep \in {Tx1Log0, Tx1Log1}}

SubsetNoncesCancelledEvents ==
  {RawEvent("looks-rare-v2-subset-nonces-cancelled", bep, l) :
     bep \in {Tx1Log1, Tx2Log0},
     l \in {MalformedLog} \cup
           {DecodedLog([user |-> "0xA1", subsetNonces |-> ns]) : ns \in NonceLists}}

OrderNoncesCancelledEvents ==
  {RawEvent("looks-rare-v2-order-nonces-cancelled", bep, l) :
     bep \in {Tx1Log1, Tx2Log0},
     l \in {MalformedLog} \cup
           {DecodedLog([user |-> "0xA1", orderNonces |-> ns]) : ns \in NonceLists}}

\* itemIds with the amounts array of the same length: an empty list, a single
\* item of amount 0, a single item of amount 2, a bundle of two items.
ItemsAndAmounts ==
  {<< <<>>, <<>> >>, << <<7>>, <<0>> >>, << <<7>>, <<2>> >>, << <<7, 8>>, <<1, 1>> >>}

\* feeAmounts is a uint256[3].
TakerAskEvents ==
  {RawEvent("looks-rare-v2-taker-ask", bep, l) :
     bep \in {Tx1Log1, Tx2Log0},
     l \in {MalformedLog} \cup
           {DecodedLog([nonceInvalidationParameters |->
                          [orderHash |-> "0xH1", orderNonce |-> 9],
                        bidUser |-> "0xA1", askUser |-> "0xB2",
                        currency |-> "0xE20", collection |-> "0xNFT",
                        itemIds |-> ia[1], amounts |-> ia[2],
                        feeAmounts |-> <<5, 1, 0>>]) : ia \in ItemsAndAmounts}}

TakerBidEvents ==
  {RawEvent("looks-rare-v2-taker-bid", bep, l) :
     bep \in {Tx1Log1, Tx2Log0},
     l \in {MalformedLog} \cup
           {DecodedLog([nonceInvalidationParameters |->
                          [orderHash |-> "0xH1", orderNonce |-> 9],
                        bidUser |-> "0xA1", bidRecipient |-> "0xC3",
                        currency |-> "0xE20", collection |-> "0xNFT",
                        itemIds |-> ia[1], amounts |-> ia[2],
                        feeAmounts |-> <<5, 1, 0>>]) : ia \in ItemsAndAmounts}}

\* Raw events of a sub-kind the switch has no case for: ERC-20 Transfer logs
\* of either transaction, and a log that is no ERC-20 Transfer.
OtherKindEvents ==
  {RawEvent("erc20-transfer", bep, [decodable |-> TRUE, erc20 |-> "0xe20", args |-> <<>>]) :
     bep \in {Tx1Log0, Tx2Log0}} \cup
  {RawEvent("erc721-transfer", Tx1Log0,
            [decodable |-> TRUE, erc20 |-> undefined, args |-> <<>>])}

-----------------------------------------------------------------------------
(* Inputs: what the awaited resolvers answer *)

\* utils.extractAttributionData: the call rejects, or resolves to the
\* attribution data.  A field the resolver leaves out is absent.
AttributionData ==
  {[taker |-> undefined],
   [taker |-> "0xd4", orderSource |-> [id |-> "s1"],
    aggregatorSource |-> [id |-> "s2"], fillSource |-> [id |-> "s3"]]}
AttributionOutcomes ==
  {[rejects |-> TRUE]} \cup {[rejects |-> FALSE, data |-> d] : d \in AttributionData}

\* getUSDAndNativePrices: the call rejects, or resolves to the price data.
PriceData ==
  {[nativePrice |-> undefined, usdPrice |-> undefined],
   [nativePrice |-> "500", usdPrice |-> "1000"]}
PriceOutcomes ==
  {[rejects |-> TRUE]} \cup {[rejects |-> FALSE, data |-> d] : d \in PriceData}

\* Optional chaining, attributionData.orderSource?.id
OptionalId(data, field) == IF field \in DOMAIN data THEN data[field].id ELSE undefined

-----------------------------------------------------------------------------
(* Helpers of the handler *)

\* bn(x): the BigNumber of a decimal numeral (the inverse of toString).
MaxNumeral == 9
bn(s) == CHOOSE n \in 0..MaxNumeral : toString(n) = s

\* currencyPrice = bn(currencyPrice).div(amount).toString(): BigNumber
\* division truncates; both operands are unsigned.
\* (the division left out: the total fee taken as the unit price)
UnitPrice_Undivided(feeAmount, amount) == feeAmount
UnitPrice(feeAmount, amount) == toString(bn(feeAmount) \div bn(amount))

\* JavaScript truthiness of a string-or-undefined value.
Truthy(v) == v # undefined /\ v # ""

\* The handler's effects are threaded through a record:
\*   ocd     the accumulator, pushLog the order of its push calls,
\*   calls   the resolver calls made, thrown whether an exception escaped,
\*   await   the call handleEvents is suspended on, if any.
\* (the list assigned to, instead of pushed to)
Push_Replace(st, list, rec) ==
  [st EXCEPT !.ocd[list] = <<rec>>, !.pushLog = Append(@, list)]
\* (the record put at the front of the list instead of the end)
Push_Prepend(st, list, rec) ==
  [st EXCEPT !.ocd[list] = <<rec>> \o @, !.pushLog = Append(@, list)]
Push(st, list, rec) ==
  [st EXCEPT !.ocd[list] = Append(@, rec), !.pushLog = Append(@, list)]

Throw(st) == [st EXCEPT !.thrown = TRUE]

\* A resolver is called; the call is pending until it settles.
Called(st, call) == [st EXCEPT !.calls = Append(@, call)]

\* await: handleEvents is suspended on the pending call.
Await(st, call) == [st EXCEPT !.await = call]

\* The pending (last) call settles: it resolves to data or rejects.
Settled(st, outcome) ==
  [st EXCEPT !.calls[Len(st.calls)] = @ @@ [result |-> outcome]]

\* getERC20Transfer(logs): the address of the first ERC-20 Transfer log.
RECURSIVE getERC20Transfer(_)
getERC20Transfer(logs) ==
  IF logs = <<>> THEN undefined
  ELSE IF Head(logs).erc20 # undefined THEN Head(logs).erc20
  ELSE getERC20Transfer(Tail(logs))

-----------------------------------------------------------------------------
(* case "looks-rare-v2-new-bid-ask-nonces" *)

\* (the second push reusing the first batch index)
NewBidAskNoncesCase_NoIncrement(st, ev) ==
  IF ~ev.log.decodable THEN Throw(st)
  ELSE
    LET args == ev.log.args
        baseEventParams == ev.baseEventParams
        maker == toLowerCase(args.user)
        rec(nonce, side) ==
          [orderKind |-> "looks-rare-v2", maker |-> maker, minNonce |-> nonce,
           baseEventParams |-> baseEventParams, orderSide |-> side, acrossAll |-> TRUE]
    IN Push(Push(st, "bulkCancelEvents", rec(toString(args.askNonce), "sell")),
            "bulkCancelEvents", rec(toString(args.bidNonce), "buy"))

NewBidAskNoncesCase(st, ev) ==
  IF ~ev.log.decodable THEN Throw(st)
  ELSE
    LET args == ev.log.args
        baseEventParams == ev.baseEventParams
        maker == toLowerCase(args.user)
        bidNonce == toString(args.bidNonce)
        askNonce == toString(args.askNonce)
        batchIndex == baseEventParams.batchIndex
        st1 == Push(st, "bulkCancelEvents",
                 [orderKind |-> "looks-rare-v2",
                  maker |-> maker,
                  minNonce |-> askNonce,
                  baseEventParams |-> [baseEventParams EXCEPT !.batchIndex = batchIndex],
                  orderSide |-> "sell",
                  acrossAll |-> TRUE])
    IN Push(st1, "bulkCancelEvents",
         [orderKind |-> "looks-rare-v2",
          maker |-> maker,
          minNonce |-> bidNonce,
          orderSide |-> "buy",
          acrossAll |-> TRUE,
          baseEventParams |-> [baseEventParams EXCEPT !.batchIndex = batchIndex + 1]])

-----------------------------------------------------------------------------
(* case "looks-rare-v2-subset-nonces-cancelled" *)

\* for (const subsetNonce of subsetNonces) { push(... batchIndex++ ...) }
RECURSIVE SubsetNoncesLoop(_, _, _, _, _)
SubsetNoncesLoop(st, maker, subsetNonces, baseEventParams, batchIndex) ==
  IF subsetNonces = <<>> THEN st
  ELSE SubsetNoncesLoop(
         Push(st, "nonceCancelEvents",
           [orderKind |-> "looks-rare-v2",
            maker |-> maker,
            nonce |-> Head(subsetNonces),
            baseEventParams |-> [baseEventParams EXCEPT !.batchIndex = batchIndex],
            isSubset |-> TRUE]),
         maker, Tail(subsetNonces), baseEventParams, batchIndex + 1)

\* (batchIndex continuing from the raw event's own)
SubsetNoncesCancelledCase_FromBase(st, ev) ==
  IF ~ev.log.decodable THEN Throw(st)
  ELSE SubsetNoncesLoop(st, toLowerCase(ev.log.args.user),
                        MapString(ev.log.args.subsetNonces),
                        ev.baseEventParams, ev.baseEventParams.batchIndex)

SubsetNoncesCancelledCase(st, ev) ==
  IF ~ev.log.decodable THEN Throw(st)
  ELSE
    LET args == ev.log.args
        maker == toLowerCase(args.user)
        subsetNonces == MapString(args.subsetNonces)
    IN SubsetNoncesLoop(st, maker, subsetNonces, ev.baseEventParams, 1)

-----------------------------------------------------------------------------
(* case "looks-rare-v2-order-nonces-cancelled" *)

\* for (const orderNonce of orderNonces) { push(... batchIndex++ ...) }
\* The pushed record has no isSubset property.
RECURSIVE OrderNoncesLoop(_, _, _, _, _)
OrderNoncesLoop(st, maker, orderNonces, baseEventParams, batchIndex) ==
  IF orderNonces = <<>> THEN st
  ELSE OrderNoncesLoop(
         Push(st, "nonceCancelEvents",
           [orderKind |-> "looks-rare-v2",
            maker |-> maker,
            nonce |-> Head(orderNonces),
            baseEventParams |-> [baseEventParams EXCEPT !.batchIndex = batchIndex]]),
         maker, Tail(orderNonces), baseEventParams, batchIndex + 1)

\* (the subset loop reused for order nonces)
OrderNoncesCancelledCase_AsSubset(st, ev) ==
  IF ~ev.log.decodable THEN Throw(st)
  ELSE SubsetNoncesLoop(st, toLowerCase(ev.log.args.user),
                        MapString(ev.log.args.orderNonces), ev.baseEventParams, 1)

OrderNoncesCancelledCase(st, ev) ==
  IF ~ev.log.decodable THEN Throw(st)
  ELSE
    LET args == ev.log.args
        maker == toLowerCase(args.user)
        orderNonces == MapString(args.orderNonces)
    IN OrderNoncesLoop(st, maker, orderNonces, ev.baseEventParams, 1)

-----------------------------------------------------------------------------
(* case "looks-rare-v2-taker-ask" *)

\* if (parsedLog.args["itemIds"].length > 1) break;
TakerAskIsBundle(itemIds) == Len(itemIds) > 1

\* if (!priceData.nativePrice) break;
TakerAskHasNativePrice_Always(priceData) == TRUE
TakerAskHasNativePrice(priceData) == Truthy(priceData.nativePrice)

\* The records a resolved single-item taker-ask trade pushes; d holds the
\* decoded locals.
\* (the order source id read from the aggregator source)
TakerAskFillEvent_Unattributed(baseEventParams, d, priceData, attributionData) ==
  [orderKind |-> "looks-rare-v2",
   orderId |-> d.orderId,
   orderSide |-> "buy",
   maker |-> d.maker,
   taker |-> d.taker,
   price |-> priceData.nativePrice,
   currency |-> d.currency,
   currencyPrice |-> d.currencyPrice,
   usdPrice |-> priceData.usdPrice,
   contract |-> d.contract,
   tokenId |-> d.tokenId,
   amount |-> d.amount,
   orderSourceId |-> OptionalId(attributionData, "aggregatorSource"),
   aggregatorSourceId |-> OptionalId(attributionData, "aggregatorSource"),
   fillSourceId |-> OptionalId(attributionData, "fillSource"),
   baseEventParams |-> baseEventParams]

TakerAskFillEvent(baseEventParams, d, priceData, attributionData) ==
  [orderKind |-> "looks-rare-v2",
   orderId |-> d.orderId,
   orderSide |-> "buy",
   maker |-> d.maker,
   taker |-> d.taker,
   price |-> priceData.nativePrice,
   currency |-> d.currency,
   currencyPrice |-> d.currencyPrice,
   usdPrice |-> priceData.usdPrice,
   contract |-> d.contract,
   tokenId |-> d.tokenId,
   amount |-> d.amount,
   orderSourceId |-> OptionalId(attributionData, "orderSource"),
   aggregatorSourceId |-> OptionalId(attributionData, "aggregatorSource"),
   fillSourceId |-> OptionalId(attributionData, "fillSource"),
   baseEventParams |-> baseEventParams]

\* Cancel all the other orders of the maker having the same nonce.  The
\* record has no isSubset property.
TakerAskNonceCancelEvent(baseEventParams, d) ==
  [orderKind |-> "looks-rare-v2",
   maker |-> d.maker,
   nonce |-> d.orderNonce,
   baseEventParams |-> baseEventParams]

TakerAskOrderInfo(baseEventParams, d) ==
  [context |-> "filled-" \o d.orderId,
   id |-> d.orderId,
   trigger |-> [kind |-> "sale",
                txHash |-> baseEventParams.txHash,
                txTimestamp |-> baseEventParams.timestamp]]

TakerAskFillInfo(baseEventParams, d, priceData) ==
  [context |-> d.orderId,
   orderId |-> d.orderId,
   orderSide |-> "buy",
   contract |-> d.contract,
   tokenId |-> d.tokenId,
   amount |-> d.amount,
   price |-> priceData.nativePrice,
   timestamp |-> baseEventParams.timestamp,
   maker |-> d.maker,
   taker |-> d.taker]

\* The four pushes, in program order.
TakerAskAppends_CancelFirst(st, baseEventParams, d, priceData, attributionData) ==
  LET st1 == Push(st, "nonceCancelEvents", TakerAskNonceCancelEvent(baseEventParams, d))
      st2 == Push(st1, "fillEvents",
                  TakerAskFillEvent(baseEventParams, d, priceData, attributionData))
      st3 == Push(st2, "orderInfos", TakerAskOrderInfo(baseEventParams, d))
  IN Push(st3, "fillInfos", TakerAskFillInfo(baseEventParams, d, priceData))

TakerAskAppends(st, baseEventParams, d, priceData, attributionData) ==
  LET st1 == Push(st, "fillEvents",
                  TakerAskFillEvent(baseEventParams, d, priceData, attributionData))
      st2 == Push(st1, "nonceCancelEvents", TakerAskNonceCancelEvent(baseEventParams, d))
      st3 == Push(st2, "orderInfos", TakerAskOrderInfo(baseEventParams, d))
  IN Push(st3, "fillInfos", TakerAskFillInfo(baseEventParams, d, priceData))

\* If an ERC20 transfer occured in the same transaction as a sale then the
\* maker's ERC20 approval to the exchange is resynced.
TakerAskResync_Never(st, baseEventParams, maker, logs) == st

TakerAskResync(st, baseEventParams, maker, logs) ==
  LET erc20 == getERC20Transfer(logs)
  IN IF Truthy(erc20)
       THEN Push(st, "makerInfos",
              [context |-> baseEventParams.txHash \o "-buy-approval",
               maker |-> maker,
               trigger |-> [kind |-> "approval-change",
                            txHash |-> baseEventParams.txHash,
                            txTimestamp |-> baseEventParams.timestamp],
               data |-> [kind |-> "buy-approval",
                         contract |-> erc20,
                         orderKind |-> "looks-rare-v2"]])
       ELSE st

\* The decoded locals of a single-item trade.
TakerAskDecoded(ev) ==
  LET args == ev.log.args
  IN [orderId |-> toLowerCase(args.nonceInvalidationParameters.orderHash),
      orderNonce |-> toString(args.nonceInvalidationParameters.orderNonce),
      maker |-> toLowerCase(args.bidUser),
      taker |-> toLowerCase(args.askUser),
      currency |-> toLowerCase(args.currency),
      feeAmount |-> toString(args.feeAmounts[1]),
      contract |-> toLowerCase(args.collection),
      tokenId |-> toString(args.itemIds[1]),
      amount |-> toString(args.amounts[1])]

\* From the case label to await utils.extractAttributionData(...): the
\* call is made and handleEvents is suspended until it settles.
TakerAskCase(st, ev) ==
  IF ~ev.log.decodable THEN Throw(st)
  ELSE IF TakerAskIsBundle(ev.log.args.itemIds) THEN st
  \* itemIds[0] of an empty array is undefined: .toString() throws
  ELSE IF Len(ev.log.args.itemIds) = 0 THEN Throw(st)
  ELSE
    Await(Called(st, [fn |-> "extractAttributionData",
                      txHash |-> ev.baseEventParams.txHash,
                      orderKind |-> "looks-rare-v2",
                      orderId |-> TakerAskDecoded(ev).orderId]),
          "attribution")

\* The attribution call settled with attr: up to
\* await getUSDAndNativePrices(...), where handleEvents is suspended again.
TakerAskAttributed(st, ev, attr) ==
  LET decoded == TakerAskDecoded(ev)
      st1 == Settled(st, attr)
  IN
  IF attr.rejects THEN Throw(st1)
  \* BigNumber.div throws on a zero divisor
  ELSE IF bn(decoded.amount) = 0 THEN Throw(st1)
  ELSE
    Await(Called(st1, [fn |-> "getUSDAndNativePrices",
                       currency |-> decoded.currency,
                       currencyPrice |-> UnitPrice(decoded.feeAmount, decoded.amount),
                       timestamp |-> ev.baseEventParams.timestamp]),
          "price")

\* The price call settled with price: the native price test and the pushes.
\* attributionData is what the attribution call resolved to.
TakerAskPriced(st, ev, logs, price) ==
  LET decoded == TakerAskDecoded(ev)
      baseEventParams == ev.baseEventParams
      attributionData == st.calls[Len(st.calls) - 1].result.data
      st1 == Settled(st, price)
  IN
  IF price.rejects THEN Throw(st1)
  ELSE
    LET priceData == price.data
    IN
    IF ~TakerAskHasNativePrice(priceData) THEN st1
    ELSE
      LET d == [orderId |-> decoded.orderId, orderNonce |-> decoded.orderNonce,
                maker |-> decoded.maker,
                taker |-> IF Truthy(attributionData.taker)
                            THEN attributionData.taker ELSE decoded.taker,
                currency |-> decoded.currency,
                currencyPrice |-> UnitPrice(decoded.feeAmount, decoded.amount),
                contract |-> decoded.contract, tokenId |-> decoded.tokenId,
                amount |-> decoded.amount]
      IN LET st3 == TakerAskAppends(st1, baseEventParams, d, priceData, attributionData)
            IN TakerAskResync(st3, baseEventParams, d.maker, logs)

-----------------------------------------------------------------------------
(* case "looks-rare-v2-taker-bid" *)

\* if (parsedLog.args["itemIds"].length > 1) break;
TakerBidIsBundle_OffByOne(itemIds) == Len(itemIds) > 2
TakerBidIsBundle(itemIds) == Len(itemIds) > 1

\* if (!priceData.nativePrice) break;
TakerBidHasNativePrice(priceData) == Truthy(priceData.nativePrice)

\* The records a resolved single-item taker-bid trade pushes; d holds the
\* decoded locals.
TakerBidFillEvent(baseEventParams, d, priceData, attributionData) ==
  [orderKind |-> "looks-rare-v2",
   orderId |-> d.orderId,
   orderSide |-> "sell",
   maker |-> d.maker,
   taker |-> d.taker,
   price |-> priceData.nativePrice,
   currency |-> d.currency,
   currencyPrice |-> d.currencyPrice,
   usdPrice |-> priceData.usdPrice,
   contract |-> d.contract,
   tokenId |-> d.tokenId,
   amount |-> d.amount,
   orderSourceId |-> OptionalId(attributionData, "orderSource"),
   aggregatorSourceId |-> OptionalId(attributionData, "aggregatorSource"),
   fillSourceId |-> OptionalId(attributionData, "fillSource"),
   baseEventParams |-> baseEventParams]

\* Cancel all the other orders of the maker having the same nonce.  The
\* record has no isSubset property.
TakerBidNonceCancelEvent(baseEventParams, d) ==
  [orderKind |-> "looks-rare-v2",
   maker |-> d.maker,
   nonce |-> d.orderNonce,
   baseEventParams |-> baseEventParams]

TakerBidOrderInfo(baseEventParams, d) ==
  [context |-> "filled-" \o d.orderId,
   id |-> d.orderId,
   trigger |-> [kind |-> "sale",
                txHash |-> baseEventParams.txHash,
                txTimestamp |-> baseEventParams.timestamp]]

\* (the orderSide of the taker-ask case copied over)
TakerBidFillInfo_BuySide(baseEventParams, d, priceData) ==
  [context |-> d.orderId,
   orderId |-> d.orderId,
   orderSide |-> "buy",
   contract |-> d.contract,
   tokenId |-> d.tokenId,
   amount |-> d.amount,
   price |-> priceData.nativePrice,
   timestamp |-> baseEventParams.timestamp,
   maker |-> d.maker,
   taker |-> d.taker]

TakerBidFillInfo(baseEventParams, d, priceData) ==
  [context |-> d.orderId,
   orderId |-> d.orderId,
   orderSide |-> "sell",
   contract |-> d.contract,
   tokenId |-> d.tokenId,
   amount |-> d.amount,
   price |-> priceData.nativePrice,
   timestamp |-> baseEventParams.timestamp,
   maker |-> d.maker,
   taker |-> d.taker]

\* The four pushes, in program order.
TakerBidAppends(st, baseEventParams, d, priceData, attributionData) ==
  LET st1 == Push(st, "fillEvents",
                  TakerBidFillEvent(baseEventParams, d, priceData, attributionData))
      st2 == Push(st1, "nonceCancelEvents", TakerBidNonceCancelEvent(baseEventParams, d))
      st3 == Push(st2, "orderInfos", TakerBidOrderInfo(baseEventParams, d))
  IN Push(st3, "fillInfos", TakerBidFillInfo(baseEventParams, d, priceData))

\* The decoded locals of a single-item trade.
TakerBidDecoded(ev) ==
  LET args == ev.log.args
  IN [orderId |-> toLowerCase(args.nonceInvalidationParameters.orderHash),
      orderNonce |-> toString(args.nonceInvalidationParameters.orderNonce),
      maker |-> toLowerCase(args.bidUser),
      taker |-> toLowerCase(args.bidRecipient),
      currency |-> toLowerCase(args.currency),
      feeAmount |-> toString(args.feeAmounts[1]),
      contract |-> toLowerCase(args.collection),
      tokenId |-> toString(args.itemIds[1]),
      amount |-> toString(args.amounts[1])]

\* From the case label to await utils.extractAttributionData(...): the
\* call is made and handleEvents is suspended until it settles.
TakerBidCase(st, ev) ==
  IF ~ev.log.decodable THEN Throw(st)
  ELSE IF TakerBidIsBundle(ev.log.args.itemIds) THEN st
  \* itemIds[0] of an empty array is undefined: .toString() throws
  ELSE IF Len(ev.log.args.itemIds) = 0 THEN Throw(st)
  ELSE
    Await(Called(st, [fn |-> "extractAttributionData",
                      txHash |-> ev.baseEventParams.txHash,
                      orderKind |-> "looks-rare-v2",
                      orderId |-> TakerBidDecoded(ev).orderId]),
          "attribution")

\* The attribution call settled with attr: up to
\* await getUSDAndNativePrices(...), where handleEvents is suspended again.
TakerBidAttributed(st, ev, attr) ==
  LET decoded == TakerBidDecoded(ev)
      st1 == Settled(st, attr)
  IN
  IF attr.rejects THEN Throw(st1)
  \* BigNumber.div throws on a zero divisor
  ELSE IF bn(decoded.amount) = 0 THEN Throw(st1)
  ELSE
    Await(Called(st1, [fn |-> "getUSDAndNativePrices",
                       currency |-> decoded.currency,
                       currencyPrice |-> UnitPrice(decoded.feeAmount, decoded.amount),
                       timestamp |-> ev.baseEventParams.timestamp]),
          "price")

\* The price call settled with price: the native price test and the pushes.
\* attributionData is what the attribution call resolved to.
TakerBidPriced(st, ev, price) ==
  LET decoded == TakerBidDecoded(ev)
      baseEventParams == ev.baseEventParams
      attributionData == st.calls[Len(st.calls) - 1].result.data
      st1 == Settled(st, price)
  IN
  IF price.rejects THEN Throw(st1)
  ELSE
    LET priceData == price.data
    IN
    IF ~TakerBidHasNativePrice(priceData) THEN st1
    ELSE
      LET d == [orderId |-> decoded.orderId, orderNonce |-> decoded.orderNonce,
                maker |-> decoded.maker,
                taker |-> IF Truthy(attributionData.taker)
                            THEN attributionData.taker ELSE decoded.taker,
                currency |-> decoded.currency,
                currencyPrice |-> UnitPrice(decoded.feeAmount, decoded.amount),
                contract |-> decoded.contract, tokenId |-> decoded.tokenId,
                amount |-> decoded.amount]
      IN LET st3 == TakerBidAppends(st1, baseEventParams, d, priceData, attributionData)
            IN st3

-----------------------------------------------------------------------------
(* handleEvents: the loop *)

EmptyOnChainData ==
  [fillEvents |-> <<>>, nonceCancelEvents |-> <<>>, bulkCancelEvents |-> <<>>,
   orderInfos |-> <<>>, fillInfos |-> <<>>, makerInfos |-> <<>>]

Lists == DOMAIN EmptyOnChainData

\* The collections the mint detector meets, and the Redis keys in use.
Collections == {"c1", "c2"}
MintDetailsLockKey(collection) == "mint-details:" \o collection
LatestBlockKey == "latest-block-websocket-received"
RedisKeys == {MintDetailsLockKey(c) : c \in Collections} \cup {LatestBlockKey}

\* A key Redis does not hold.
NoEntry == [present |-> FALSE]

\* The rest of the process at start: an empty Redis, no detectMint
\* invocation, no health check under way.
ProcessInit ==
  /\ redis = [key \in RedisKeys |-> NoEntry]
  /\ clock = 0
  /\ detections = <<>>
  /\ health = [master |-> FALSE, enableWebSocket |-> FALSE, pc |-> "idle"]

\* handleEvents(events, onChainData) has just been called on an empty
\* accumulator: let currentTx; let currentTxLogs = [].
Init ==
  /\ onChainData = EmptyOnChainData
  /\ pushLog = <<>>
  /\ currentTx = undefined
  /\ currentTxLogs = <<>>
  /\ events = <<>>
  /\ calls = <<>>
  /\ status = "running"
  /\ ProcessInit

\* handleEvents called on an accumulator an earlier call has filled: the
\* caller passes the same onChainData again.  The earlier call handled a
\* bulk cancel and an explicit cancellation of two nonces.
PreviousCall ==
  LET fresh == [ocd |-> EmptyOnChainData, pushLog |-> <<>>,
                calls |-> <<>>, thrown |-> FALSE, await |-> "none"]
      bulk == RawEvent("looks-rare-v2-new-bid-ask-nonces", Tx1Log0,
                       DecodedLog([user |-> "0xA1", bidNonce |-> 3, askNonce |-> 4]))
      cancel == RawEvent("looks-rare-v2-order-nonces-cancelled", Tx2Log0,
                         DecodedLog([user |-> "0xA1", orderNonces |-> <<2, 1>>]))
  IN OrderNoncesCancelledCase(NewBidAskNoncesCase(fresh, bulk), cancel)

InitPreloaded ==
  /\ onChainData = PreviousCall.ocd
  /\ pushLog = PreviousCall.pushLog
  /\ currentTx = undefined
  /\ currentTxLogs = <<>>
  /\ events = <<>>
  /\ calls = <<>>
  /\ status = "running"
  /\ ProcessInit

\* Loop header: reset the log cache when the tx hash changes, then push the log.
\* (the reset left out)
NextTxLogs_NoReset(ev) == Append(currentTxLogs, ev.log)
NextTxLogs(ev) ==
  Append(IF currentTx # ev.baseEventParams.txHash THEN <<>> ELSE currentTxLogs, ev.log)

Before ==
  [ocd |-> onChainData, pushLog |-> pushLog, calls |-> calls,
   thrown |-> FALSE, await |-> "none"]

\* Where a segment of handleEvents leaves the call.
StatusAfter(after) ==
  IF after.thrown THEN "thrown"
  ELSE IF after.await = "attribution" THEN "await-attribution"
  ELSE IF after.await = "price" THEN "await-price"
  ELSE "running"

\* The loop takes raw event ev: the loop header and the switch case, up to
\* its break, its first await or a throw, leaving `after`.
Iteration(ev, after) ==
  /\ status = "running"
  /\ Len(events) < MaxEvents
  /\ currentTx' = ev.baseEventParams.txHash
  /\ currentTxLogs' = NextTxLogs(ev)
  /\ events' = Append(events, ev)
  /\ onChainData' = after.ocd
  /\ pushLog' = after.pushLog
  /\ calls' = after.calls
  /\ status' = StatusAfter(after)
  /\ UNCHANGED processVars

\* handleEvents resumes after an await and runs up to the next await, the
\* end of the iteration or a throw, leaving `after`.
Resumption(after) ==
  /\ onChainData' = after.ocd
  /\ pushLog' = after.pushLog
  /\ calls' = after.calls
  /\ status' = StatusAfter(after)
  /\ UNCHANGED <<currentTx, currentTxLogs, events>>
  /\ UNCHANGED processVars

NewBidAskNonces ==
  \E ev \in NewBidAskNoncesEvents :
    Iteration(ev, NewBidAskNoncesCase(Before, ev))

SubsetNoncesCancelled ==
  \E ev \in SubsetNoncesCancelledEvents :
    Iteration(ev, SubsetNoncesCancelledCase(Before, ev))

OrderNoncesCancelled ==
  \E ev \in OrderNoncesCancelledEvents :
    Iteration(ev, OrderNoncesCancelledCase(Before, ev))

TakerAsk ==
  \E ev \in TakerAskEvents :
    Iteration(ev, TakerAskCase(Before, ev))

TakerAskAttribution ==
  \E attr \in AttributionOutcomes :
    /\ status = "await-attribution"
    /\ events[Len(events)] \in TakerAskEvents
    /\ Resumption(TakerAskAttributed(Before, events[Len(events)], attr))

TakerAskPrice ==
  \E price \in PriceOutcomes :
    /\ status = "await-price"
    /\ events[Len(events)] \in TakerAskEvents
    /\ Resumption(TakerAskPriced(Before, events[Len(events)], currentTxLogs, price))

TakerBid ==
  \E ev \in TakerBidEvents :
    Iteration(ev, TakerBidCase(Before, ev))

TakerBidAttribution ==
  \E attr \in AttributionOutcomes :
    /\ status = "await-attribution"
    /\ events[Len(events)] \in TakerBidEvents
    /\ Resumption(TakerBidAttributed(Before, events[Len(events)], attr))

TakerBidPrice ==
  \E price \in PriceOutcomes :
    /\ status = "await-price"
    /\ events[Len(events)] \in TakerBidEvents
    /\ Resumption(TakerBidPriced(Before, events[Len(events)], price))

\* A sub-kind the switch has no case for.
\* (a default branch that rejects a kind it does not know)
OtherKind_Rejected ==
  \E ev \in OtherKindEvents :
    Iteration(ev, Throw(Before))
OtherKind ==
  \E ev \in OtherKindEvents :
    Iteration(ev, Before)

\* The batch is exhausted: the loop ends and the promise resolves.
Return ==
  /\ status = "running"
  /\ status' = "returned"
  /\ UNCHANGED <<onChainData, pushLog, currentTx, currentTxLogs, events, calls>>
  /\ UNCHANGED processVars

Next ==
  \/ NewBidAskNonces
  \/ SubsetNoncesCancelled
  \/ OrderNoncesCancelled
  \/ TakerAsk
  \/ TakerAskAttribution
  \/ TakerAskPrice
  \/ TakerBid
  \/ TakerBidAttribution
  \/ TakerBidPrice
  \/ OtherKind
  \/ Return

Spec == Init /\ [][Next]_vars

\* While this call is suspended on a resolver, another call of handleEvents
\* that was given the same onChainData handles a bulk cancel of a third
\* transaction, from its case label to its break.
OtherCallEvent ==
  RawEvent("looks-rare-v2-new-bid-ask-nonces", BaseEventParams("0xt3", 0, 1),
           DecodedLog([user |-> "0xA1", bidNonce |-> 3, askNonce |-> 4]))

OtherCall ==
  /\ status \in {"await-attribution", "await-price"}
  /\ \A i \in 1..Len(onChainData.bulkCancelEvents) :
       onChainData.bulkCancelEvents[i].baseEventParams.txHash
         # OtherCallEvent.baseEventParams.txHash
  /\ LET after == NewBidAskNoncesCase(Before, OtherCallEvent)
     IN /\ onChainData' = after.ocd
        /\ pushLog' = after.pushLog
  /\ UNCHANGED <<currentTx, currentTxLogs, events, calls, status>>
  /\ UNCHANGED processVars

NextShared ==
  \/ Next
  \/ OtherCall

\* The same loop over an accumulator that already holds records and that
\* another call appends to meanwhile.
SpecPreloaded == InitPreloaded /\ [][NextShared]_vars

-----------------------------------------------------------------------------
(* Vocabulary of the properties *)

Last(seq) == seq[Len(seq)]

\* The step is the loop iteration on raw event ev.
Iterated(ev) == events' = Append(events, ev)

\* The step appended exactly recs to a list; it left the other lists alone.
Appends(list, recs) == onChainData'[list] = onChainData[list] \o recs
OnlyChanges(lists) == \A l \in Lists \ lists : onChainData'[l] = onChainData[l]
NoRecord == onChainData' = onChainData /\ pushLog' = pushLog

TradeEvents == TakerAskEvents \cup TakerBidEvents
SingleItem(ev) == ev.log.decodable /\ Len(ev.log.args.itemIds) = 1
DecodeFails(ev) ==
  \/ ~ev.log.decodable
  \/ ev \in TradeEvents /\ Len(ev.log.args.itemIds) = 0

\* The step is the one in which the attribution call of the trade on raw
\* event ev settles, and the one in which its price call settles.
Attributed(ev) ==
  /\ status = "await-attribution" /\ status' # "await-attribution"
  /\ Last(events) = ev
Priced(ev) ==
  /\ status = "await-price" /\ status' # "await-price"
  /\ Last(events) = ev

\* What the attribution call settled in the step settles with, and the
\* same for the price call.
AttributionAnswer == calls'[Len(calls)].result
PriceAnswer == Last(calls').result
\* The attribution call of the trade in hand, once its price call is made.
AttributionOfFill == calls'[Len(calls') - 1]

\* The price call settles in the step, and it resolves.
PriceResolved ==
  /\ status = "await-price" /\ status' # "await-price"
  /\ ~PriceAnswer.rejects
\* ... to a native price
NativePriceResolved == PriceResolved /\ PriceAnswer.data.nativePrice # undefined

HasERC20Transfer(logs) == \E i \in 1..Len(logs) : logs[i].erc20 # undefined

-----------------------------------------------------------------------------
(* C1: for a bulk-nonce raw event (that decodes) with base batch index b,   *)
(* the iteration appends exactly two records to bulkCancelEvents and        *)
(* nothing to any other list: first sell/askNonce with batchIndex b, then   *)
(* buy/bidNonce with batchIndex b + 1, both acrossAll with the decoded      *)
(* maker.                                                                   *)
C1_BulkNoncesAppendTwo ==
  [][\A ev \in NewBidAskNoncesEvents :
       (Iterated(ev) /\ ev.log.decodable) =>
         LET b == ev.baseEventParams.batchIndex
             maker == toLowerCase(ev.log.args.user)
         IN /\ Appends("bulkCancelEvents",
                 << [orderKind |-> "looks-rare-v2", maker |-> maker,
                     minNonce |-> toString(ev.log.args.askNonce),
                     baseEventParams |-> [ev.baseEventParams EXCEPT !.batchIndex = b],
                     orderSide |-> "sell", acrossAll |-> TRUE],
                    [orderKind |-> "looks-rare-v2", maker |-> maker,
                     minNonce |-> toString(ev.log.args.bidNonce),
                     baseEventParams |-> [ev.baseEventParams EXCEPT !.batchIndex = b + 1],
                     orderSide |-> "buy", acrossAll |-> TRUE] >>)
            /\ OnlyChanges({"bulkCancelEvents"})
            /\ Len(pushLog') = Len(pushLog) + 2
    ]_vars

C1_Witness ==
  /\ Len(events) = 2
  /\ Last(events) \in NewBidAskNoncesEvents
  /\ Last(events).log.decodable
  /\ Last(events).baseEventParams.batchIndex = 2
  /\ Len(onChainData.bulkCancelEvents) >= 2
  /\ Last(onChainData.bulkCancelEvents).baseEventParams.batchIndex = 3

(* C2: for a subset-nonce cancellation raw event (that decodes) listing k   *)
(* nonces, the iteration appends exactly k records to nonceCancelEvents,    *)
(* the i-th with the i-th nonce, isSubset = true and batchIndex = i         *)
(* whatever the event's own batch index; no other list changes.             *)
C2_SubsetNoncesAppendK ==
  [][\A ev \in SubsetNoncesCancelledEvents :
       (Iterated(ev) /\ ev.log.decodable) =>
         LET ns == ev.log.args.subsetNonces
         IN /\ Appends("nonceCancelEvents",
                 [i \in 1..Len(ns) |->
                    [orderKind |-> "looks-rare-v2",
                     maker |-> toLowerCase(ev.log.args.user),
                     nonce |-> toString(ns[i]),
                     baseEventParams |-> [ev.baseEventParams EXCEPT !.batchIndex = i],
                     isSubset |-> TRUE]])
            /\ OnlyChanges({"nonceCancelEvents"})
            /\ Len(pushLog') = Len(pushLog) + Len(ns)
    ]_vars

C2_Witness ==
  /\ Len(events) = 2
  /\ Last(events) \in SubsetNoncesCancelledEvents
  /\ Last(events).log.decodable
  /\ Len(Last(events).log.args.subsetNonces) = 2
  /\ Last(events).baseEventParams.batchIndex = 2
  /\ Len(onChainData.nonceCancelEvents) >= 2
  /\ Last(onChainData.nonceCancelEvents).isSubset
  /\ Last(onChainData.nonceCancelEvents).baseEventParams.batchIndex = 2
  /\ Last(onChainData.nonceCancelEvents).nonce = "1"

\* What an order-nonce cancellation appends, the i-th record being rec(i, nonce).
OrderNoncesAppendK(rec(_, _, _)) ==
  \A ev \in OrderNoncesCancelledEvents :
    (Iterated(ev) /\ ev.log.decodable) =>
      LET ns == ev.log.args.orderNonces
      IN /\ Appends("nonceCancelEvents",
              [i \in 1..Len(ns) |-> rec(ev, i, toString(ns[i]))])
         /\ OnlyChanges({"nonceCancelEvents"})
         /\ Len(pushLog') = Len(pushLog) + Len(ns)

OrderNonceCancel(ev, i, nonce) ==
  [orderKind |-> "looks-rare-v2",
   maker |-> toLowerCase(ev.log.args.user),
   nonce |-> nonce,
   baseEventParams |-> [ev.baseEventParams EXCEPT !.batchIndex = i]]

OrderNonceCancelIsSubsetFalse(ev, i, nonce) ==
  [orderKind |-> "looks-rare-v2",
   maker |-> toLowerCase(ev.log.args.user),
   nonce |-> nonce,
   baseEventParams |-> [ev.baseEventParams EXCEPT !.batchIndex = i],
   isSubset |-> FALSE]

(* C3 as stated: for an order-nonce cancellation raw event listing k        *)
(* nonces, exactly k records are appended to nonceCancelEvents in list      *)
(* order with batchIndex 1..k, each with isSubset = false.                  *)
C3_OrderNoncesIsSubsetFalse ==
  [][OrderNoncesAppendK(OrderNonceCancelIsSubsetFalse)]_vars

(* C3 as amended: ... exactly k records in list order with batchIndex 1..k, *)
(* and each of these records carries no isSubset property at all (reading   *)
(* it gives undefined), so it is never isSubset = true.                     *)
C3_OrderNoncesNoIsSubset ==
  [][OrderNoncesAppendK(OrderNonceCancel)]_vars

C3_Witness ==
  /\ Len(events) = 2
  /\ Last(events) \in OrderNoncesCancelledEvents
  /\ Last(events).log.decodable
  /\ Len(Last(events).log.args.orderNonces) = 2
  /\ Len(onChainData.nonceCancelEvents) >= 2
  /\ "isSubset" \notin DOMAIN Last(onChainData.nonceCancelEvents)
  /\ Last(onChainData.nonceCancelEvents).baseEventParams.batchIndex = 2

(* C4: for a trade-execution raw event (taker-ask or taker-bid) whose       *)
(* decoded item list has more than one entry, the iteration appends no      *)
(* record to any list, calls neither resolver, raises no error, and the     *)
(* loop goes on.                                                            *)
C4_BundleSkipped ==
  [][\A ev \in TradeEvents :
       (Iterated(ev) /\ ev.log.decodable /\ Len(ev.log.args.itemIds) > 1) =>
         /\ NoRecord
         /\ calls' = calls
         /\ status' = "running"
    ]_vars

\* A bundle was skipped and the event after it was processed.
C4_Witness ==
  /\ Len(events) = 2
  /\ events[1] \in TradeEvents
  /\ events[1].log.decodable
  /\ Len(events[1].log.args.itemIds) = 2
  /\ events[2] \in OrderNoncesCancelledEvents
  /\ Len(onChainData.nonceCancelEvents) = 2
  /\ onChainData.fillEvents = <<>>
  /\ calls = <<>>

(* C5: when the price resolver returns no native price for a trade, the     *)
(* iteration appends no record of any kind for that event; consequently     *)
(* every FillEvent in the accumulator has a native price.                   *)
C5_NoNativePriceNoRecord ==
  /\ [](\A i \in 1..Len(onChainData.fillEvents) :
          onChainData.fillEvents[i].price # undefined)
  /\ [][(PriceResolved /\ PriceAnswer.data.nativePrice = undefined) =>
          NoRecord /\ status' = "running"]_vars

\* A trade of each variant: one priced and filled, one without a native price.
C5_Witness ==
  /\ status = "running"
  /\ Len(events) = 2
  /\ Len(calls) = 4
  /\ calls[2].fn = "getUSDAndNativePrices"
  /\ ~calls[2].result.rejects
  /\ calls[2].result.data.nativePrice = undefined
  /\ ~calls[4].result.rejects
  /\ calls[4].result.data.nativePrice = "500"
  /\ Len(onChainData.fillEvents) = 1
  /\ onChainData.fillEvents[1].price = "500"

\* What a single-item trade whose native price resolved appends, the
\* self-invalidation nonce cancel being cancel(ev).
TradeAppends(cancel(_)) ==
  \A ev \in TradeEvents :
    (Priced(ev) /\ SingleItem(ev) /\ NativePriceResolved) =>
      LET args == ev.log.args
          orderId == toLowerCase(args.nonceInvalidationParameters.orderHash)
          four == {"fillEvents", "nonceCancelEvents", "orderInfos", "fillInfos"}
          n == Len(pushLog)
      IN /\ Len(pushLog') >= n + 4
         /\ SubSeq(pushLog', 1, n) = pushLog
         /\ SubSeq(pushLog', n + 1, n + 4) =
              <<"fillEvents", "nonceCancelEvents", "orderInfos", "fillInfos">>
         /\ \A i \in (n + 5)..Len(pushLog') : pushLog'[i] \notin four
         /\ \A l \in four :
              /\ Len(onChainData'[l]) = Len(onChainData[l]) + 1
              /\ SubSeq(onChainData'[l], 1, Len(onChainData[l])) = onChainData[l]
         /\ Last(onChainData'.fillEvents).orderId = orderId
         /\ Last(onChainData'.fillEvents).maker = toLowerCase(args.bidUser)
         /\ Last(onChainData'.fillEvents).baseEventParams = ev.baseEventParams
         /\ Last(onChainData'.nonceCancelEvents) = cancel(ev)
         /\ Last(onChainData'.orderInfos).id = orderId
         /\ Last(onChainData'.orderInfos).trigger.kind = "sale"
         /\ Last(onChainData'.fillInfos).orderId = orderId

SelfCancel(ev) ==
  [orderKind |-> "looks-rare-v2",
   maker |-> toLowerCase(ev.log.args.bidUser),
   nonce |-> toString(ev.log.args.nonceInvalidationParameters.orderNonce),
   baseEventParams |-> ev.baseEventParams]

SelfCancelIsSubsetFalse(ev) ==
  [orderKind |-> "looks-rare-v2",
   maker |-> toLowerCase(ev.log.args.bidUser),
   nonce |-> toString(ev.log.args.nonceInvalidationParameters.orderNonce),
   baseEventParams |-> ev.baseEventParams,
   isSubset |-> FALSE]

(* C6 as stated: a single-item trade (either variant) whose native price    *)
(* resolves appends exactly one FillEvent, then exactly one                 *)
(* NonceCancelEvent for the fill's maker and order nonce with               *)
(* isSubset = false and the raw event's origin parameters, then exactly one *)
(* OrderInfo of kind "sale" keyed by the order id, then exactly one         *)
(* FillInfo, in that order of appends.                                      *)
C6_TradeAppendsIsSubsetFalse == [][TradeAppends(SelfCancelIsSubsetFalse)]_vars

(* C6 as amended: the same four appends in the same order, the              *)
(* NonceCancelEvent carrying the maker, the order nonce and the raw event's *)
(* origin parameters but no isSubset property (reading it gives undefined). *)
C6_TradeAppendsInOrder == [][TradeAppends(SelfCancel)]_vars

\* A cancellation, then a taker-ask trade that was priced and appended.
C6_Witness ==
  /\ Len(events) = 2
  /\ events[1] \in OrderNoncesCancelledEvents
  /\ events[2] \in TakerAskEvents
  /\ Len(onChainData.fillEvents) = 1
  /\ Len(onChainData.nonceCancelEvents) = 3
  /\ "isSubset" \notin DOMAIN onChainData.nonceCancelEvents[3]
  /\ onChainData.nonceCancelEvents[3].nonce = "9"
  /\ Len(onChainData.orderInfos) = 1
  /\ Len(onChainData.fillInfos) = 1
  /\ SubSeq(pushLog, 3, 6) =
       <<"fillEvents", "nonceCancelEvents", "orderInfos", "fillInfos">>

\* The MakerInfo of the approval resync of a trade on raw event ev.
ResyncMakerInfo(ev, logs) ==
  [context |-> ev.baseEventParams.txHash \o "-buy-approval",
   maker |-> toLowerCase(ev.log.args.bidUser),
   trigger |-> [kind |-> "approval-change",
                txHash |-> ev.baseEventParams.txHash,
                txTimestamp |-> ev.baseEventParams.timestamp],
   data |-> [kind |-> "buy-approval",
             contract |-> logs[CHOOSE i \in 1..Len(logs) :
                                 /\ logs[i].erc20 # undefined
                                 /\ \A j \in 1..(i - 1) : logs[j].erc20 = undefined].erc20,
             orderKind |-> "looks-rare-v2"]]

\* A resolved single-item trade of the given events appends one MakerInfo,
\* last, iff an ERC-20 transfer is among the logs cached for its transaction.
ResyncIffTransfer(tradeEvents) ==
  \A ev \in tradeEvents :
    (Priced(ev) /\ SingleItem(ev) /\ NativePriceResolved) =>
      IF HasERC20Transfer(currentTxLogs')
        THEN /\ Appends("makerInfos", <<ResyncMakerInfo(ev, currentTxLogs')>>)
             /\ Last(pushLog') = "makerInfos"
        ELSE onChainData'.makerInfos = onChainData.makerInfos

\* No other step appends a MakerInfo.
ResyncOnlyThen(tradeEvents) ==
  onChainData'.makerInfos # onChainData.makerInfos =>
    \E ev \in tradeEvents :
      /\ Priced(ev) /\ SingleItem(ev) /\ NativePriceResolved
      /\ HasERC20Transfer(currentTxLogs')

(* C7 as stated: for a valid single-item trade of either variant, exactly   *)
(* one MakerInfo "approval-change" for the maker, tagged with the detected  *)
(* ERC-20 contract and the protocol kind, is appended after the fill iff an *)
(* ERC-20 transfer is among the logs of the same transaction; none is       *)
(* appended otherwise.                                                      *)
C7_ResyncEitherVariant ==
  [][ResyncIffTransfer(TradeEvents) /\ ResyncOnlyThen(TradeEvents)]_vars

(* C7 as amended: for a valid single-item taker-ask trade, exactly one such *)
(* MakerInfo is appended, after the fill's four records, iff the scanner    *)
(* finds an ERC-20 transfer in the transaction log cache (the logs of the   *)
(* current run of same-txHash raw events up to and including the trade);    *)
(* a taker-bid trade never appends a MakerInfo, and no other step does.     *)
C7_ResyncTakerAskOnly ==
  [][/\ ResyncIffTransfer(TakerAskEvents)
     /\ ResyncOnlyThen(TakerAskEvents)]_vars

\* An ERC-20 transfer log, then a taker-ask trade of the same transaction.
C7_Witness ==
  /\ Len(events) = 2
  /\ events[1].log.erc20 = "0xe20"
  /\ events[2] \in TakerAskEvents
  /\ events[1].baseEventParams.txHash = events[2].baseEventParams.txHash
  /\ Len(onChainData.fillEvents) = 1
  /\ Len(onChainData.makerInfos) = 1
  /\ onChainData.makerInfos[1].data.contract = "0xe20"
  /\ Last(pushLog) = "makerInfos"

AllEvents ==
  NewBidAskNoncesEvents \cup SubsetNoncesCancelledEvents \cup OrderNoncesCancelledEvents
    \cup TakerAskEvents \cup TakerBidEvents \cup OtherKindEvents

(* C8: if decoding the payload of a raw event fails (malformed log, or a    *)
(* trade with an empty item list), handleEvents does not raise: the event   *)
(* contributes no record and the loop goes on with the next raw event.      *)
C8_DecodeFailureSkipped ==
  [][\A ev \in AllEvents :
       (Iterated(ev) /\ ev.subKind # "erc20-transfer" /\ ev.subKind # "erc721-transfer"
          /\ DecodeFails(ev)) =>
         NoRecord /\ status' = "running"]_vars

(* C9: if the price resolver call of a trade fails, the raw event yields no *)
(* record and handleEvents continues with the remaining raw events instead  *)
(* of aborting the batch.                                                   *)
C9_PriceFailureSkipped ==
  [][(/\ status = "await-price" /\ status' # "await-price"
      /\ PriceAnswer.rejects) =>
       NoRecord /\ status' = "running"]_vars

(* C10: if the attribution resolver call of a trade fails, the trade is     *)
(* still normalized with the decoded taker and no source identifiers, and   *)
(* processing of the batch continues.                                       *)
C10_AttributionFailureTolerated ==
  [][\A ev \in TradeEvents :
       /\ (Attributed(ev) /\ AttributionAnswer.rejects /\ ev.log.args.amounts[1] # 0) =>
            /\ status' = "await-price"
            /\ Last(calls').fn = "getUSDAndNativePrices"
       /\ (Priced(ev) /\ NativePriceResolved /\ AttributionOfFill.result.rejects) =>
            /\ Len(onChainData'.fillEvents) = Len(onChainData.fillEvents) + 1
            /\ Last(onChainData'.fillEvents).taker =
                 toLowerCase(IF ev \in TakerAskEvents
                               THEN ev.log.args.askUser
                               ELSE ev.log.args.bidRecipient)
            /\ Last(onChainData'.fillEvents).orderSourceId = undefined]_vars

(* C11: for every FillEvent appended, currencyPrice is the integer quotient *)
(* of the decoded total fee amount by the decoded amount:                   *)
(* currencyPrice * amount <= totalFeeAmount and the difference is the       *)
(* truncation remainder (>= 0 and < amount); the same unit price is the     *)
(* value passed to the price resolver.                                      *)
C11_UnitPriceIsQuotient ==
  [][\A ev \in TradeEvents :
       \* the price call is made
       /\ (Attributed(ev) /\ status' = "await-price") =>
            LET fee == ev.log.args.feeAmounts[1]
                amount == ev.log.args.amounts[1]
                passed == bn(Last(calls').currencyPrice)
                rem == fee - passed * amount
            IN /\ Last(calls').fn = "getUSDAndNativePrices"
               /\ amount >= 1
               /\ passed * amount <= fee
               /\ 0 <= rem /\ rem < amount
       \* the fill is appended
       /\ (Priced(ev) /\ NativePriceResolved) =>
            /\ Len(onChainData'.fillEvents) = Len(onChainData.fillEvents) + 1
            /\ Last(onChainData'.fillEvents).currencyPrice
                 = Last(calls').currencyPrice
            /\ Last(onChainData'.fillEvents).amount
                 = toString(ev.log.args.amounts[1])
    ]_vars

\* A fill of fee 5 over amount 2: unit price 2, remainder 1.
C11_Witness ==
  /\ Len(onChainData.fillEvents) = 2
  /\ onChainData.fillEvents[2].currencyPrice = "2"
  /\ onChainData.fillEvents[2].amount = "2"
  /\ Last(events).log.args.feeAmounts[1] = 5
  /\ Last(calls).currencyPrice = "2"

\* The raw event a record was derived from, as far as the record tells:
\* event records carry baseEventParams, order and maker infos carry the
\* trigger's txHash, fill infos carry the block timestamp.
DerivedFrom(list, rec, ev) ==
  CASE list \in {"fillEvents", "nonceCancelEvents", "bulkCancelEvents"} ->
         /\ rec.baseEventParams.txHash = ev.baseEventParams.txHash
         /\ rec.baseEventParams.logIndex = ev.baseEventParams.logIndex
    [] list \in {"orderInfos", "makerInfos"} ->
         rec.trigger.txHash = ev.baseEventParams.txHash
    [] OTHER ->
         rec.timestamp = ev.baseEventParams.timestamp

\* The records can be assigned to raw events of the batch, each to one it
\* was derived from, without ever going back in the batch.
RECURSIVE InEventOrder(_, _, _)
InEventOrder(list, recs, evs) ==
  IF recs = <<>> THEN TRUE
  ELSE IF evs = <<>> THEN FALSE
  ELSE IF DerivedFrom(list, Head(recs), Head(evs))
       THEN InEventOrder(list, Tail(recs), evs)
       ELSE InEventOrder(list, recs, Tail(evs))

(* C13: within every accumulator list the records appear in the order of   *)
(* the raw events that triggered them (a record of event i before every    *)
(* record of a later event j), also when trades, which wait on the         *)
(* resolvers, are interleaved with cancellations.                          *)
C13_RecordsInEventOrder ==
  \A list \in Lists : InEventOrder(list, onChainData[list], events)

\* A resolved trade followed by an explicit cancellation of two nonces in
\* another transaction: the self-cancel precedes both explicit cancels.
C13_Witness ==
  /\ Len(events) = 2
  /\ events[1] \in TradeEvents
  /\ events[2] \in OrderNoncesCancelledEvents
  /\ events[1].baseEventParams.txHash # events[2].baseEventParams.txHash
  /\ Len(onChainData.nonceCancelEvents) = 3
  /\ onChainData.nonceCancelEvents[1].baseEventParams.txHash
       = events[1].baseEventParams.txHash

\* The (txHash, logIndex, batchIndex) key of an event record.
Key(rec) ==
  <<rec.baseEventParams.txHash,
    rec.baseEventParams.logIndex,
    rec.baseEventParams.batchIndex>>

DistinctKeys(recs) ==
  \A i, j \in 1..Len(recs) : Key(recs[i]) = Key(recs[j]) => i = j

\* No two raw events of the batch share (txHash, logIndex).
DistinctLogPositions(evs) ==
  \A i, j \in 1..Len(evs) :
    (/\ evs[i].baseEventParams.txHash = evs[j].baseEventParams.txHash
     /\ evs[i].baseEventParams.logIndex = evs[j].baseEventParams.logIndex)
      => i = j

(* C14: for a batch whose raw events have pairwise distinct (txHash,      *)
(* logIndex), no two records of the same event list (fillEvents,          *)
(* nonceCancelEvents, bulkCancelEvents) share (txHash, logIndex,          *)
(* batchIndex); this covers the records derived from one raw event and a  *)
(* fill's self-invalidation cancel against explicit nonce cancels.        *)
C14_KeysUniquePerList ==
  DistinctLogPositions(events) =>
    /\ DistinctKeys(onChainData.fillEvents)
    /\ DistinctKeys(onChainData.nonceCancelEvents)
    /\ DistinctKeys(onChainData.bulkCancelEvents)

\* Two explicit nonce cancels of one raw event (batchIndex 1 and 2),
\* then the self-cancel of a fill at another log (batchIndex 1 again).
C14_Witness ==
  /\ Len(events) = 2
  /\ DistinctLogPositions(events)
  /\ events[1] \in OrderNoncesCancelledEvents
  /\ events[2] \in TradeEvents
  /\ Len(onChainData.nonceCancelEvents) = 3
  /\ Len(onChainData.fillEvents) = 1
  /\ onChainData.nonceCancelEvents[3].baseEventParams.batchIndex
       = onChainData.nonceCancelEvents[1].baseEventParams.batchIndex

(* C15: a single-item trade whose decoded amount is 0 is skipped: no record *)
(* is appended, nothing is raised and the loop goes on to the next raw      *)
(* event.                                                                   *)
C15_ZeroAmountSkipped ==
  [][\A ev \in TradeEvents :
       (/\ Attributed(ev)
        /\ ev.log.args.amounts[1] = 0
        /\ ~AttributionAnswer.rejects) =>
         NoRecord /\ status' = "running"]_vars

(* C16: a raw event whose kind is none of the five handled kinds leaves    *)
(* every accumulator list unchanged and triggers no resolver call, and the *)
(* loop goes on to the next raw event.                                     *)
C16_OtherKindIgnored ==
  [][\A ev \in OtherKindEvents :
       Iterated(ev) =>
         /\ NoRecord
         /\ calls' = calls
         /\ status' = "running"]_vars

\* An unhandled kind after a resolved trade: the records of the trade are
\* all there is, and the loop is still running.
C16_Witness ==
  /\ Len(events) = 2
  /\ events[1] \in TradeEvents
  /\ events[2] \in OtherKindEvents
  /\ Len(onChainData.fillEvents) = 1
  /\ Len(calls) = 2
  /\ status = "running"

\* The order side each trade variant records.
SideOf(ev) == IF ev \in TakerAskEvents THEN "buy" ELSE "sell"

\* The decoded maker and taker of a trade: the bid user makes a taker-ask
\* and the ask user takes it; the bid user makes a taker-bid and the bid
\* recipient takes it.
DecodedMaker(ev) == toLowerCase(ev.log.args.bidUser)
DecodedTaker(ev) ==
  IF ev \in TakerAskEvents THEN toLowerCase(ev.log.args.askUser)
  ELSE toLowerCase(ev.log.args.bidRecipient)

(* C17: the FillEvent of a taker-ask trade has order side buy and that of  *)
(* a taker-bid trade has order side sell; the FillInfo appended with it    *)
(* has the same orderId, orderSide, contract, tokenId, amount, maker and   *)
(* taker, the native price as its price, and the raw event's timestamp.    *)
C17_SideAndFillInfoMirror ==
  [][\A ev \in TradeEvents :
       (Priced(ev) /\ NativePriceResolved) =>
         LET fill == Last(onChainData'.fillEvents)
             info == Last(onChainData'.fillInfos)
         IN /\ Len(onChainData'.fillEvents) = Len(onChainData.fillEvents) + 1
            /\ Len(onChainData'.fillInfos) = Len(onChainData.fillInfos) + 1
            /\ fill.orderSide = SideOf(ev)
            /\ info.orderSide = fill.orderSide
            /\ info.orderId = fill.orderId
            /\ info.contract = fill.contract
            /\ info.tokenId = fill.tokenId
            /\ info.amount = fill.amount
            /\ info.maker = fill.maker
            /\ info.taker = fill.taker
            /\ info.price = fill.price
            /\ info.price = PriceAnswer.data.nativePrice
            /\ info.timestamp = ev.baseEventParams.timestamp
    ]_vars

\* A taker-bid fill after a taker-ask fill: a sell after a buy.
C17_Witness ==
  /\ Len(events) = 2
  /\ events[1] \in TakerAskEvents
  /\ events[2] \in TakerBidEvents
  /\ Len(onChainData.fillInfos) = 2
  /\ onChainData.fillEvents[1].orderSide = "buy"
  /\ onChainData.fillInfos[2].orderSide = "sell"

(* C18: the taker of the FillEvent and of the FillInfo is the attribution  *)
(* resolver's taker when it returns one and the decoded taker otherwise;   *)
(* the order, aggregator and fill source ids are exactly the ids of the    *)
(* sources the resolver returned (absent when it returned none); the maker *)
(* is the decoded maker whatever the attribution.                          *)
C18_AttributionApplied ==
  [][\A ev \in TradeEvents :
       (Priced(ev) /\ NativePriceResolved) =>
         LET fill == Last(onChainData'.fillEvents)
             info == Last(onChainData'.fillInfos)
             attributionData == AttributionOfFill.result.data
             taker == IF attributionData.taker # undefined
                        THEN attributionData.taker ELSE DecodedTaker(ev)
         IN /\ AttributionOfFill.fn = "extractAttributionData"
            /\ fill.taker = taker
            /\ info.taker = taker
            /\ fill.maker = DecodedMaker(ev)
            /\ info.maker = DecodedMaker(ev)
            /\ \A src \in {"orderSource", "aggregatorSource", "fillSource"} :
                 LET id == CASE src = "orderSource" -> fill.orderSourceId
                             [] src = "aggregatorSource" -> fill.aggregatorSourceId
                             [] OTHER -> fill.fillSourceId
                 IN IF src \in DOMAIN attributionData
                      THEN id = attributionData[src].id
                      ELSE id = undefined
    ]_vars

\* One fill with the attribution override and its three sources, one
\* without attribution: decoded taker, no source id.
C18_Witness ==
  /\ Len(onChainData.fillEvents) = 2
  /\ onChainData.fillEvents[1].taker = "0xd4"
  /\ onChainData.fillEvents[1].orderSourceId = "s1"
  /\ onChainData.fillEvents[1].aggregatorSourceId = "s2"
  /\ onChainData.fillEvents[1].fillSourceId = "s3"
  /\ onChainData.fillEvents[2].taker \in {"0xb2", "0xc3"}
  /\ onChainData.fillEvents[2].orderSourceId = undefined

IsPrefix(s, t) == Len(s) <= Len(t) /\ SubSeq(t, 1, Len(s)) = s

(* C19: the accumulator is append-only during handleEvents: at every step  *)
(* each list is an extension of what it was before, so the records present *)
(* when the call starts (from an earlier call on the same accumulator) and *)
(* those appended earlier in the pass are never removed, reordered or      *)
(* modified.                                                               *)
C19_AppendOnly ==
  /\ [](\A list \in Lists : IsPrefix(PreviousCall.ocd[list], onChainData[list]))
  /\ [][\A list \in Lists : IsPrefix(onChainData[list], onChainData'[list])]_vars

\* Two events into lists that already held records: a bulk cancel behind
\* the two earlier bulk records, then a trade's self-cancel behind the two
\* earlier nonce cancels; while the trade waited for a resolver another
\* call appended two bulk records of its own.
C19_Witness ==
  /\ Len(events) = 2
  /\ events[1] \in NewBidAskNoncesEvents
  /\ events[2] \in TradeEvents
  /\ Len(PreviousCall.ocd.bulkCancelEvents) = 2
  /\ Len(onChainData.bulkCancelEvents) = 6
  /\ onChainData.bulkCancelEvents[6].baseEventParams.txHash = "0xt3"
  /\ Len(PreviousCall.ocd.nonceCancelEvents) = 2
  /\ Len(onChainData.nonceCancelEvents) = 3
  /\ Len(onChainData.fillEvents) = 1

\* The first raw event of the contiguous run of same-txHash raw events that
\* ends the batch processed so far, and the logs of that run in input order.
RunStart(evs) ==
  LET n == Len(evs)
      tx(i) == evs[i].baseEventParams.txHash
  IN CHOOSE k \in 1..n :
       /\ \A i \in k..n : tx(i) = tx(n)
       /\ k = 1 \/ tx(k - 1) # tx(n)

RunLogs(evs) ==
  LET k == RunStart(evs)
  IN [i \in 1..(Len(evs) - k + 1) |-> evs[k + i - 1].log]

(* C20: once raw event i has entered the loop, the transaction-scoped log  *)
(* cache holds exactly the logs of the raw events from the start of the    *)
(* current contiguous run of same-txHash events up to and including i, in  *)
(* input order: it is emptied when the txHash differs from the previous    *)
(* event's and never holds a log of another transaction.  The ERC-20 scan  *)
(* of a trade sees those logs and no others: a MakerInfo is appended only  *)
(* for a transfer found among them.                                        *)
C20_CacheIsCurrentRun ==
  /\ [](IF events = <<>>
          THEN currentTx = undefined /\ currentTxLogs = <<>>
          ELSE /\ currentTx = Last(events).baseEventParams.txHash
               /\ currentTxLogs = RunLogs(events))
  /\ [][\A ev \in TradeEvents :
          (/\ onChainData'.makerInfos # onChainData.makerInfos
           /\ events' # <<>> /\ Last(events') = ev) =>
            /\ HasERC20Transfer(RunLogs(events'))
            /\ onChainData'.makerInfos
                 = Append(onChainData.makerInfos,
                          ResyncMakerInfo(ev, RunLogs(events')))
     ]_vars

\* A taker-ask right after an ERC-20 transfer of the same transaction: the
\* cache holds both logs and the resync names the transferred token.
C20_Witness ==
  /\ Len(events) = 2
  /\ events[1] \in OtherKindEvents
  /\ events[2] \in TakerAskEvents
  /\ events[1].baseEventParams.txHash = events[2].baseEventParams.txHash
  /\ currentTxLogs = <<events[1].log, events[2].log>>
  /\ Len(onChainData.makerInfos) = 1
  /\ onChainData.makerInfos[1].data.contract = "0xe20"

-----------------------------------------------------------------------------
(* Redis and the clock, as detectMint and HealthCheck.check use them *)

null == "null"

\* Time passes in steps of TickSeconds, up to MaxTicks steps.
TickSeconds == 60
MaxTicks == 6

Tick ==
  /\ clock < MaxTicks * TickSeconds
  /\ clock' = clock + TickSeconds
  /\ UNCHANGED <<onChainData, pushLog, currentTx, currentTxLogs, events, calls,
                 status, redis, detections, health>>

\* redis.get(key): the value of a key that is held and has not expired.
redisGet(key) ==
  LET entry == redis[key]
  IN IF entry.present /\ ("expiresAt" \in DOMAIN entry => entry.expiresAt > clock)
       THEN entry.value
       ELSE null

\* redis.set(key, value, "EX", seconds)
redisSetEX(key, value, seconds) ==
  [redis EXCEPT ![key] = [present |-> TRUE, value |-> value,
                          expiresAt |-> clock + seconds]]

\* redis.set(key, value)
redisSet(key, value) ==
  [redis EXCEPT ![key] = [present |-> TRUE, value |-> value]]

-----------------------------------------------------------------------------
(* detectMint(txHash, skipCache): the mint-details lock *)

MaxDetections == 2

\* "EX", 5 * 60
MintDetailsLockSeconds == 5 * 60

\* The transactions detectMint is called on, with what its two queries
\* resolve to: the contract of its transfers (undefined when there is no
\* transfer, the contract is blacklisted or the transfers are of several
\* contracts) and the collection of its tokens (undefined when there is
\* none or several).
MintTransactions ==
  {[txHash |-> "0xm1", contract |-> "0xn1", collection |-> "c1"],
   [txHash |-> "0xm2", contract |-> "0xn1", collection |-> "c1"],
   [txHash |-> "0xm3", contract |-> "0xn2", collection |-> "c2"],
   [txHash |-> "0xm4", contract |-> undefined, collection |-> undefined],
   [txHash |-> "0xm5", contract |-> "0xn3", collection |-> undefined]}

UnchangedByDetectMint ==
  UNCHANGED <<onChainData, pushLog, currentTx, currentTxLogs, events, calls,
              status, clock, health>>

\* The invocation moves on to pc.
At(invocation, pc) ==
  [txHash |-> invocation.txHash, contract |-> invocation.contract,
   collection |-> invocation.collection, skipCache |-> invocation.skipCache,
   pc |-> pc]

\* detectMint(txHash, skipCache) is called: the transfers query is sent.
\* Calls do not wait for each other.
DetectMint ==
  \E tx \in MintTransactions, skipCache \in BOOLEAN :
    /\ Len(detections) < MaxDetections
    /\ detections' = Append(detections,
         [txHash |-> tx.txHash, contract |-> tx.contract,
          collection |-> tx.collection, skipCache |-> skipCache,
          pc |-> "transfers"])
    /\ UNCHANGED redis
    /\ UnchangedByDetectMint

\* The transfers query is answered: the early returns on the transfers,
\* else the tokens query is sent.
TransfersAnswered(i) ==
  /\ detections[i].pc = "transfers"
  /\ detections' = [detections EXCEPT ![i].pc =
                      IF detections[i].contract = undefined
                        THEN "returned" ELSE "tokens"]
  /\ UNCHANGED redis
  /\ UnchangedByDetectMint

\* The tokens query is answered: the early returns on the collection, then
\* if (!skipCache): the lock is read, or skipped.
TokensAnswered(i) ==
  /\ detections[i].pc = "tokens"
  /\ detections' = [detections EXCEPT ![i] =
       IF @.collection = undefined THEN At(@, "returned")
       ELSE IF @.skipCache THEN At(@, "past-lock") @@ [passedAt |-> clock]
       ELSE At(@, "get")]
  /\ UNCHANGED redis
  /\ UnchangedByDetectMint

\* const mintDetailsLock = await redis.get(mintDetailsLockKey);
\* if (mintDetailsLock) return;
GetLock(i) ==
  /\ detections[i].pc = "get"
  /\ LET mintDetailsLockKey == MintDetailsLockKey(detections[i].collection)
         mintDetailsLock == redisGet(mintDetailsLockKey)
     IN detections' = [detections EXCEPT ![i].pc =
                         IF mintDetailsLock # null THEN "returned" ELSE "set"]
  /\ UNCHANGED redis
  /\ UnchangedByDetectMint

\* await redis.set(mintDetailsLockKey, "locked", "EX", 5 * 60);
\* The invocation is past the lock.
SetLock(i) ==
  /\ detections[i].pc = "set"
  /\ LET mintDetailsLockKey == MintDetailsLockKey(detections[i].collection)
     IN redis' = redisSetEX(mintDetailsLockKey, "locked", MintDetailsLockSeconds)
  /\ detections' = [detections EXCEPT ![i] =
                      At(@, "past-lock") @@ [passedAt |-> clock]]
  /\ UnchangedByDetectMint

TransfersQueried == \E i \in 1..Len(detections) : TransfersAnswered(i)
TokensQueried == \E i \in 1..Len(detections) : TokensAnswered(i)
LockRead == \E i \in 1..Len(detections) : GetLock(i)
LockWritten == \E i \in 1..Len(detections) : SetLock(i)

NextDetectMint ==
  \/ DetectMint
  \/ TransfersQueried
  \/ TokensQueried
  \/ LockRead
  \/ LockWritten
  \/ Tick

SpecDetectMint == Init /\ [][NextDetectMint]_vars

\* Invocation i went through the lock (skipCache = false) and got past it.
PastLock(i) ==
  /\ ~detections[i].skipCache
  /\ detections[i].pc = "past-lock"

(* C21: with skipCache = false, at most one detectMint invocation per      *)
(* collection gets past the mint-details lock within one 5-minute lock     *)
(* window, also when several invocations for the same collection run       *)
(* concurrently: two invocations of one collection that got past the lock  *)
(* did so at least 5 * 60 seconds apart.                                   *)
C21_OnePastLockPerWindow ==
  \A i, j \in 1..Len(detections) :
    (/\ i < j
     /\ PastLock(i) /\ PastLock(j)
     /\ detections[i].collection = detections[j].collection) =>
      \/ detections[j].passedAt - detections[i].passedAt >= MintDetailsLockSeconds
      \/ detections[i].passedAt - detections[j].passedAt >= MintDetailsLockSeconds

-----------------------------------------------------------------------------
(* HealthCheck.check() *)

\* Number(timestamp) of a stored decimal timestamp.
Number(s) == CHOOSE n \in 0..(MaxTicks * TickSeconds) : toString(n) = s

\* The websocket listener stores the time of the latest block it received.
BlockReceived ==
  /\ redis' = redisSet(LatestBlockKey, toString(clock))
  /\ UNCHANGED <<onChainData, pushLog, currentTx, currentTxLogs, events, calls,
                 status, clock, detections, health>>

\* timestamp && Number(timestamp) < currentTime - 60, and then
\* Number(timestamp) < currentTime - 180: the check fails.
\* (the failure raised at the threshold of the logged warning)
WebSocketStale_AtWarning(timestamp, currentTime) ==
  /\ timestamp # null /\ timestamp # ""
  /\ Number(timestamp) < currentTime - 60
WebSocketStale(timestamp, currentTime) ==
  /\ timestamp # null /\ timestamp # ""
  /\ Number(timestamp) < currentTime - 60
  /\ Number(timestamp) < currentTime - 180

UnchangedByCheck ==
  UNCHANGED <<onChainData, pushLog, currentTx, currentTxLogs, events, calls,
              status, redis, clock, detections>>

Config == [master |-> health.master, enableWebSocket |-> health.enableWebSocket]

\* check() is called: await hdb.query("SELECT 1"), which resolves or is
\* caught: return false.
HealthQuery ==
  \E postgres \in BOOLEAN :
    /\ health.pc \in {"idle", "returned", "rejected"}
    /\ health' =
         IF postgres
           THEN Config @@ [pc |-> "ping", postgres |-> TRUE, pinged |-> FALSE]
           ELSE Config @@ [pc |-> "returned", postgres |-> FALSE, pinged |-> FALSE,
                           result |-> FALSE]
    /\ UnchangedByCheck

\* await redis.ping(), which resolves or is caught: return false; then
\* if (config.master && getNetworkSettings().enableWebSocket), else
\* return true.
HealthPing ==
  \E ping \in BOOLEAN :
    /\ health.pc = "ping"
    /\ health' =
         IF ~ping
           THEN Config @@ [pc |-> "returned", postgres |-> TRUE, pinged |-> TRUE,
                           ping |-> FALSE, result |-> FALSE]
         ELSE IF health.master /\ health.enableWebSocket
           THEN Config @@ [pc |-> "get", postgres |-> TRUE, pinged |-> TRUE,
                           ping |-> TRUE]
           ELSE Config @@ [pc |-> "returned", postgres |-> TRUE, pinged |-> TRUE,
                           ping |-> TRUE, result |-> TRUE]
    /\ UnchangedByCheck

\* const timestamp = await redis.get(...), outside any try: a rejection
\* rejects check(); const currentTime = now(); the two comparisons.
HealthGet ==
  \E rejects \in BOOLEAN :
    /\ health.pc = "get"
    /\ health' =
         IF rejects
           THEN Config @@ [pc |-> "rejected", postgres |-> TRUE, pinged |-> TRUE,
                           ping |-> TRUE]
           ELSE LET timestamp == redisGet(LatestBlockKey)
                    currentTime == clock
                IN Config @@ [pc |-> "returned", postgres |-> TRUE, pinged |-> TRUE,
                              ping |-> TRUE, timestamp |-> timestamp,
                              currentTime |-> currentTime,
                              result |-> ~WebSocketStale(timestamp, currentTime)]
    /\ UnchangedByCheck

\* A process of any configuration, before its first health check.
InitHealthCheck ==
  /\ onChainData = EmptyOnChainData
  /\ pushLog = <<>>
  /\ currentTx = undefined
  /\ currentTxLogs = <<>>
  /\ events = <<>>
  /\ calls = <<>>
  /\ status = "running"
  /\ redis = [key \in RedisKeys |-> NoEntry]
  /\ clock = 0
  /\ detections = <<>>
  /\ health \in {[master |-> m, enableWebSocket |-> w, pc |-> "idle"] :
                   m \in BOOLEAN, w \in BOOLEAN}

NextHealthCheck ==
  \/ HealthQuery
  \/ HealthPing
  \/ HealthGet
  \/ BlockReceived
  \/ Tick

SpecHealthCheck == InitHealthCheck /\ [][NextHealthCheck]_vars

\* The check read the stored timestamp.
TimestampRead == "timestamp" \in DOMAIN health

(* C22: HealthCheck.check returns false if the Postgres query fails (Redis *)
(* is then not pinged), false if the Redis ping fails, and, when the       *)
(* process is master with websocket enabled, false exactly when a stored   *)
(* latest-block-websocket timestamp is more than 180 seconds older than    *)
(* now; in every other case in which it returns (a missing timestamp, one  *)
(* between 60 and 180 seconds old) it returns true.                        *)
C22_HealthCheckResult ==
  health.pc = "returned" =>
    /\ ~health.postgres => ~health.pinged
    /\ TimestampRead <=> (health.postgres /\ health.ping
                           /\ health.master /\ health.enableWebSocket)
    /\ health.result = FALSE <=>
         \/ ~health.postgres
         \/ ~health.ping
         \/ /\ health.master /\ health.enableWebSocket
            /\ health.timestamp # null
            /\ health.currentTime - Number(health.timestamp) > 180

\* A master with websocket enabled whose latest block is exactly 180
\* seconds old: healthy still.
C22_Witness ==
  /\ health.pc = "returned"
  /\ health.master /\ health.enableWebSocket
  /\ TimestampRead
  /\ health.timestamp = "60"
  /\ health.currentTime = 240
  /\ health.result = TRUE

====
